---------------------------- MODULE Spec2Model ----------------------------
(***************************************************************************)
(* SpoolmanSync Home Assistant integration: the refresh coordinator        *)
(* (custom_components/spoolmansync/__init__.py), the tray select entity    *)
(* (select.py) and the tray sensor entity (sensor.py).                     *)
(*                                                                         *)
(* Python strings are sequences of one-character strings, so formatting,   *)
(* splitting, stripping and JSON decoding are computed, not assumed.       *)
(* Python values that reach the code from JSON are tagged records:         *)
(*   [t |-> "absent"]            the key is missing (dict.get gives None)  *)
(*   [t |-> "str", v |-> <<..>>] a string                                  *)
(*   [t |-> "int", v |-> n]      a number                                  *)
(***************************************************************************)
EXTENDS Integers, Sequences, FiniteSets, TLC

\* ------------------------------------------------------------------ bounds

\* Longest active_tray string drawn for the lookup specification.
MaxLen == 3
\* Most spools of a collection drawn for the lookup specification.
MaxSpools == 2
\* Refreshes of one behaviour of the protocol specification.
MaxRefresh == 1

\* ----------------------------------------------------------------- strings

Q == "\""
SP == " "
Absent == [t |-> "absent"]
PyStr(s) == [t |-> "str", v |-> s]
PyInt(n) == [t |-> "int", v |-> n]

DigitChars == <<"0", "1", "2", "3", "4", "5", "6", "7", "8", "9">>
IsDigit(c) == \E i \in 1..10 : DigitChars[i] = c
DigitVal(c) == (CHOOSE i \in 1..10 : DigitChars[i] = c) - 1

\* All strings over alphabet A of length at most n.
StringsUpTo(A, n) == UNION {[1..k -> A] : k \in 0..n}

\* str(n) of a Python int.
RECURSIVE NatToStr(_)
NatToStr(n) == IF n < 10 THEN <<DigitChars[n + 1]>>
               ELSE NatToStr(n \div 10) \o <<DigitChars[(n % 10) + 1]>>
IntToStr(n) == IF n < 0 THEN <<"-">> \o NatToStr(0 - n) ELSE NatToStr(n)

\* str.strip(chars): every leading and every trailing character of chars goes.
RECURSIVE LStrip(_, _)
LStrip(s, chars) == IF s # <<>> /\ Head(s) \in chars THEN LStrip(Tail(s), chars) ELSE s
RECURSIVE RStrip(_, _)
RStrip(s, chars) == IF s # <<>> /\ s[Len(s)] \in chars
                    THEN RStrip(SubSeq(s, 1, Len(s) - 1), chars) ELSE s
Strip(s, chars) == RStrip(LStrip(s, chars), chars)
Whitespace == {SP}

\* str.split(" ")[0]: the text before the first space.
RECURSIVE FirstToken(_)
FirstToken(s) == IF s = <<>> \/ Head(s) = SP THEN <<>>
                 ELSE <<Head(s)>> \o FirstToken(Tail(s))

\* str.replace(c, ""): every occurrence of c goes.
RECURSIVE Remove(_, _)
Remove(s, c) == IF s = <<>> THEN <<>>
                ELSE IF Head(s) = c THEN Remove(Tail(s), c)
                ELSE <<Head(s)>> \o Remove(Tail(s), c)

RECURSIVE DigitsVal(_, _)
DigitsVal(s, acc) == IF s = <<>> THEN acc
                     ELSE DigitsVal(Tail(s), 10 * acc + DigitVal(Head(s)))

\* int(s) of a Python str: surrounding whitespace goes, an optional sign, then
\* digits, with a single underscore allowed between two digits; anything else
\* raises ValueError (ok = FALSE).
UnderscoresOk(s) ==
    \A i \in 1..Len(s) : s[i] = "_" =>
        /\ i > 1 /\ i < Len(s)
        /\ IsDigit(s[i - 1]) /\ IsDigit(s[i + 1])
py_int(s) ==
    LET t == Strip(s, Whitespace)
        signed == t # <<>> /\ Head(t) \in {"+", "-"}
        body == IF signed THEN Tail(t) ELSE t
        digits == Remove(body, "_")
        ok == /\ digits # <<>>
              /\ \A i \in 1..Len(digits) : IsDigit(digits[i])
              /\ UnderscoresOk(body)
    IN  IF ~ok THEN [ok |-> FALSE]
        ELSE [ok |-> TRUE,
              val |-> IF signed /\ Head(t) = "-" THEN 0 - DigitsVal(digits, 0)
                      ELSE DigitsVal(digits, 0)]

\* json.loads(s) of a str over the alphabet {Q, letters, digits}: a document is
\* a string literal (quote, characters that are not quotes, quote) or an
\* integer literal (digits, no leading zero); anything else raises
\* JSONDecodeError (ok = FALSE).  No whitespace, backslash, sign, bracket or
\* literal name (true, false, null) can be spelled in the alphabet.
json_loads(s) ==
    LET n == Len(s)
        isString == /\ n >= 2 /\ s[1] = Q /\ s[n] = Q
                    /\ \A i \in 2..(n - 1) : s[i] # Q
        isInt == /\ n >= 1
                 /\ \A i \in 1..n : IsDigit(s[i])
                 /\ (n > 1 => s[1] # "0")
    IN  IF isString THEN [ok |-> TRUE, val |-> PyStr(SubSeq(s, 2, n - 1))]
        ELSE IF isInt THEN [ok |-> TRUE, val |-> PyInt(DigitsVal(s, 0))]
        ELSE [ok |-> FALSE]

\* Python truthiness of a value read with dict.get.
Truthy(x) == CASE x.t = "absent" -> FALSE
               [] x.t = "str" -> x.v # <<>>
               [] x.t = "int" -> x.v # 0

\* a == b for a JSON value a and a str b.
EqStr(a, b) == a.t = "str" /\ a.v = b

\* dict.get(key, default) where the value, when present, is a str.
GetOr(x, default) == IF x.t = "absent" THEN default ELSE x.v

Unknown == <<"U", "n", "k", "n", "o", "w", "n">>
NoneOption == <<"N", "o", "n", "e">>
NoSpool == <<"N", "o", " ", "S", "p", "o", "o", "l">>

\* What a property or a coroutine ends with.
Return(x) == [kind |-> "return", val |-> x]
Raise(e) == [kind |-> "raise", exc |-> e]

\* ------------------------------------------------------------- select.py

\* Mutant of spool_label: the label is not stripped.
spool_label_unstripped(spool) ==
    LET vendor == GetOr(spool.filament.vendor, Unknown)
        material == GetOr(spool.filament.material, Unknown)
        name == GetOr(spool.filament.name, <<>>)
    IN  <<"#">> \o IntToStr(spool.id) \o <<SP>> \o vendor \o <<SP>>
        \o material \o <<SP>> \o name

\* options, the loop body: the label of one spool.
spool_label(spool) ==
    LET vendor == GetOr(spool.filament.vendor, Unknown)
        material == GetOr(spool.filament.material, Unknown)
        name == GetOr(spool.filament.name, <<>>)
    IN  Strip(<<"#">> \o IntToStr(spool.id) \o <<SP>> \o vendor \o <<SP>>
              \o material \o <<SP>> \o name, Whitespace)

\* options: "None", then one label per spool, in collection order.
options(spools) == <<NoneOption>> \o [i \in 1..Len(spools) |-> spool_label(spools[i])]

\* current_option, the label returned from the try block.
current_label_try(spool) ==
    LET vendor == GetOr(spool.filament.vendor, Unknown)
        material == GetOr(spool.filament.material, Unknown)
        name == GetOr(spool.filament.name, <<>>)
    IN  Strip(<<"#">> \o IntToStr(spool.id) \o <<SP>> \o vendor \o <<SP>>
              \o material \o <<SP>> \o name, Whitespace)

\* Mutant of current_label_except: the label is not stripped.
current_label_except_unstripped(spool) ==
    LET vendor == GetOr(spool.filament.vendor, Unknown)
        material == GetOr(spool.filament.material, Unknown)
        name == GetOr(spool.filament.name, <<>>)
    IN  <<"#">> \o IntToStr(spool.id) \o <<SP>> \o vendor \o <<SP>>
        \o material \o <<SP>> \o name

\* current_option, the label returned from the except block.
current_label_except(spool) ==
    LET vendor == GetOr(spool.filament.vendor, Unknown)
        material == GetOr(spool.filament.material, Unknown)
        name == GetOr(spool.filament.name, <<>>)
    IN  Strip(<<"#">> \o IntToStr(spool.id) \o <<SP>> \o vendor \o <<SP>>
              \o material \o <<SP>> \o name, Whitespace)

\* current_option: the loop from spool i on.  json.loads of a value that is not
\* a str raises TypeError; the except block then calls .strip on it, which
\* raises AttributeError out of the property.
RECURSIVE current_option_from(_, _, _)
current_option_from(spools, tray, i) ==
    IF i > Len(spools) THEN Return(NoneOption)
    ELSE LET spool == spools[i]
             active_tray == spool.active_tray
         IN  IF ~Truthy(active_tray) THEN current_option_from(spools, tray, i + 1)
             ELSE IF active_tray.t # "str" THEN Raise("AttributeError")
             ELSE LET decoded == json_loads(active_tray.v)
                  IN  IF decoded.ok
                      THEN IF EqStr(decoded.val, tray)
                           THEN Return(current_label_try(spool))
                           ELSE current_option_from(spools, tray, i + 1)
                      ELSE IF Strip(active_tray.v, {Q}) = tray
                           THEN Return(current_label_except(spool))
                           ELSE current_option_from(spools, tray, i + 1)

\* Mutant of current_option: the quotes are stripped and compared whenever the
\* JSON value is not the tray, not only when decoding fails.
RECURSIVE current_option_either_from(_, _, _)
current_option_either_from(spools, tray, i) ==
    IF i > Len(spools) THEN Return(NoneOption)
    ELSE LET spool == spools[i]
             active_tray == spool.active_tray
         IN  IF ~Truthy(active_tray) THEN current_option_either_from(spools, tray, i + 1)
             ELSE IF active_tray.t # "str" THEN Raise("AttributeError")
             ELSE LET decoded == json_loads(active_tray.v)
                  IN  IF decoded.ok /\ EqStr(decoded.val, tray)
                      THEN Return(current_label_try(spool))
                      ELSE IF Strip(active_tray.v, {Q}) = tray
                           THEN Return(current_label_except(spool))
                           ELSE current_option_either_from(spools, tray, i + 1)
current_option_either(spools, tray) == current_option_either_from(spools, tray, 1)

current_option(spools, tray) == current_option_from(spools, tray, 1)

\* async_select_option("None"): the search for the spool to unassign, from
\* spool i on; it ends with current_spool_id, None when the loop finds no spool.
RECURSIVE unassign_search_from(_, _, _)
unassign_search_from(spools, tray, i) ==
    IF i > Len(spools) THEN Return(Absent)
    ELSE LET spool == spools[i]
             active_tray == spool.active_tray
         IN  IF ~Truthy(active_tray) THEN unassign_search_from(spools, tray, i + 1)
             ELSE IF active_tray.t # "str" THEN Raise("AttributeError")
             ELSE LET decoded == json_loads(active_tray.v)
                  IN  IF decoded.ok
                      THEN IF EqStr(decoded.val, tray)
                           THEN Return(PyInt(spool.id))
                           ELSE unassign_search_from(spools, tray, i + 1)
                      ELSE IF Strip(active_tray.v, {Q}) = tray
                           THEN Return(PyInt(spool.id))
                           ELSE unassign_search_from(spools, tray, i + 1)

unassign_search(spools, tray) == unassign_search_from(spools, tray, 1)

\* Mutant of parse_spool_id: the "#" stays in the text given to int().
parse_spool_id_keep_hash(option) == py_int(FirstToken(option))

\* async_select_option, the else branch: the spool id parsed out of the option.
parse_spool_id(option) == py_int(Remove(FirstToken(option), "#"))

\* ------------------------------------------------------------- sensor.py

SpoolPrefix == <<"S", "p", "o", "o", "l", " ", "#">>

\* native_value: the loop from spool i on.
RECURSIVE native_value_from(_, _, _)
native_value_from(spools, tray, i) ==
    IF i > Len(spools) THEN Return(NoSpool)
    ELSE LET spool == spools[i]
             active_tray == spool.active_tray
         IN  IF ~Truthy(active_tray) THEN native_value_from(spools, tray, i + 1)
             ELSE IF active_tray.t # "str" THEN Raise("AttributeError")
             ELSE LET decoded == json_loads(active_tray.v)
                  IN  IF decoded.ok
                      THEN IF EqStr(decoded.val, tray)
                           THEN Return(SpoolPrefix \o IntToStr(spool.id))
                           ELSE native_value_from(spools, tray, i + 1)
                      ELSE IF Strip(active_tray.v, {Q}) = tray
                           THEN Return(SpoolPrefix \o IntToStr(spool.id))
                           ELSE native_value_from(spools, tray, i + 1)

native_value(spools, tray) == native_value_from(spools, tray, 1)

\* extra_state_attributes: the dict built for the matching spool (n is its
\* number of keys; remaining_weight and color_hex are read with dict.get and
\* carry no logic), and the empty dict.
spool_attributes(spool) ==
    [n |-> 6, spool_id |-> spool.id, vendor |-> spool.filament.vendor,
     material |-> spool.filament.material, filament_name |-> spool.filament.name]
EmptyDict == [n |-> 0]

\* extra_state_attributes: the loop from spool i on.
RECURSIVE extra_state_attributes_from(_, _, _)
extra_state_attributes_from(spools, tray, i) ==
    IF i > Len(spools) THEN Return(EmptyDict)
    ELSE LET spool == spools[i]
             active_tray == spool.active_tray
         IN  IF ~Truthy(active_tray) THEN extra_state_attributes_from(spools, tray, i + 1)
             ELSE IF active_tray.t # "str" THEN Raise("AttributeError")
             ELSE LET decoded == json_loads(active_tray.v)
                  IN  IF decoded.ok
                      THEN IF EqStr(decoded.val, tray)
                           THEN Return(spool_attributes(spool))
                           ELSE extra_state_attributes_from(spools, tray, i + 1)
                      ELSE IF Strip(active_tray.v, {Q}) = tray
                           THEN Return(spool_attributes(spool))
                           ELSE extra_state_attributes_from(spools, tray, i + 1)

extra_state_attributes(spools, tray) == extra_state_attributes_from(spools, tray, 1)

\* ------------------------------------------------------------ input sets

\* Tray identifiers (tray["entity_id"]) of the entities that were set up.
Trays == {<<"a">>, <<"1">>}

Filament(v, m, n) == [vendor |-> v, material |-> m, name |-> n]
Spool(id, f, a) == [id |-> id, filament |-> f, active_tray |-> a]

\* Lists over S of length at most n.
ListsUpTo(S, n) == UNION {[1..k -> S] : k \in 0..n}

\* active_tray values of the lookup specification: missing, numbers (falsy
\* and truthy), every string of quotes and letters up to MaxLen, a string that
\* is a JSON number, and that number as a JSON string.
LookupAlphabet == {Q, "a"}
ActiveTrayValues ==
    {Absent, PyInt(0), PyInt(5)}
    \cup {PyStr(s) : s \in StringsUpTo(LookupAlphabet, MaxLen)
                          \cup {<<"1">>, <<Q, "1", Q>>}}

\* Spool collections of the lookup specification: the spool at position i has
\* id 6 + i, so a label or an id names one spool, and active_tray f[i].
LookupFilament == Filament(PyStr(<<"P">>), Absent, PyStr(<<"R">>))
LookupList(k, f) == [i \in 1..k |-> Spool(6 + i, LookupFilament, f[i])]

\* active_tray values of the longer collections, where a number or a second
\* match can follow or precede a match.
TieValues == {PyInt(5), PyStr(<<Q, "a", Q>>), PyStr(<<"a">>)}

\* Spool collections of one spool whose id and filament fields vary: absent,
\* empty, with a space inside, with a space at the end.
LabelIds == {0, 7, 12, 0 - 3}
LabelFilaments ==
    {Filament(v, m, n) :
        v \in {Absent, PyStr(<<"P">>), PyStr(<<"P", SP, "X">>)},
        m \in {Absent, PyStr(<<"L">>), PyStr(<<>>)},
        n \in {Absent, PyStr(<<>>), PyStr(<<"R">>), PyStr(<<"R", SP>>)}}
LabelSpoolLists ==
    {<<Spool(id, f, a)>> :
        id \in LabelIds, f \in LabelFilaments,
        a \in {Absent, PyStr(<<Q, "a", Q>>), PyStr(<<"a">>)}}

\* Spool collections the remote service returns in the protocol specification:
\* at most two spools, with id 0 or 12, all filament fields or none, and an
\* active_tray that is missing, JSON-quoted, raw, or a number.
FullFilament == Filament(PyStr(<<"P">>), PyStr(<<"L">>), PyStr(<<"R">>))
BareFilament == Filament(Absent, Absent, Absent)
ProtoSpools ==
    {Spool(id, f, a) :
        id \in {0, 12}, f \in {FullFilament, BareFilament},
        a \in {Absent, PyStr(<<Q, "a", Q>>), PyStr(<<"a">>), PyInt(5)}}
ProtoSpoolLists == ListsUpTo(ProtoSpools, 2)

\* The printer collection: the entities read it at setup only.
PrinterList == <<"printer">>

\* A JSON body: the object's list under its key, or an object without the key.
Bodies(lists) == {Absent} \cup {[t |-> "list", v |-> l] : l \in lists}

\* An option that is no label.
OtherOptions == {<<"x">>}

\* Outcomes of an HTTP request: a 200 response, another status, or an
\* exception raised by the request or by reading its body.
Statuses == {"200", "non200", "exception"}
Failures == {"non200", "exception"}

\* -------------------------------------------------------------- the state

VARIABLES
    data,           \* coordinator.data: printers and spools, each with the
                    \* number of the refresh that fetched it (from)
    rpc,            \* async_get_data: "idle", "printers" or "spools" (the GET awaited)
    rnum,           \* refreshes started
    printers_data,  \* async_get_data's local printers_data
    rlog,           \* the requests and responses of the latest refresh
    last_update,    \* how the latest refresh ended: "none", "success", "UpdateFailed"
    refresh_requested, \* coordinator.async_request_refresh() is pending
    spc,            \* async_select_option: "idle", "delete" or "post" (the write awaited)
    call,           \* the latest call: its tray, its option, how it ended
    trace,          \* the requests, responses and refresh requests of the latest call
    obs_select,     \* the latest read of a select entity's properties
    obs_sensor      \* the latest read of a sensor entity's properties

vars == <<data, rpc, rnum, printers_data, rlog, last_update, refresh_requested,
          spc, call, trace, obs_select, obs_sensor>>
rvars == <<rpc, rnum, printers_data, rlog, last_update>>
svars == <<spc, call, trace>>
ovars == <<obs_select, obs_sensor>>

\* call.ended: "none" before any call, "running", "returned", or the exception
\* the call raised.
NoCall == [tray |-> <<>>, option |-> <<>>, ended |-> "none"]
NoObs == [tray |-> <<>>]

\* A response body as a local variable holds it: the JSON object, and the
\* number of the refresh that fetched it.
Fetched(n, body) == [from |-> n, body |-> body]
NotFetched == [from |-> 0, body |-> Absent]

Data(n, printers, spools) ==
    [printers |-> [from |-> n, list |-> printers],
     spools |-> [from |-> n, list |-> spools]]

\* The state after async_setup_entry: the first refresh succeeded (refresh 0).
InitWith(spools) ==
    /\ data = Data(0, PrinterList, spools)
    /\ rpc = "idle" /\ rnum = 0 /\ printers_data = NotFetched /\ rlog = <<>>
    /\ last_update = "success"
    /\ refresh_requested = FALSE
    /\ spc = "idle" /\ call = NoCall /\ trace = <<>>
    /\ obs_select = NoObs /\ obs_sensor = NoObs

\* ------------------------------------------------- __init__.py: the refresh

Get(path) == [e |-> "GET", path |-> path]
Resp(status) == [e |-> "response", status |-> status]

\* async_get_data's return value, which the coordinator publishes as
\* coordinator.data: the "printers" and "spools" lists of the two bodies, []
\* for a body without its key.
async_get_data_result(printers, spools) ==
    [printers |-> [from |-> printers.from, list |-> GetOr(printers.body, <<>>)],
     spools |-> [from |-> spools.from, list |-> GetOr(spools.body, <<>>)]]

\* The coordinator calls update_method (the 30 s timer, or a requested
\* refresh): async_get_data runs up to its first await, the GET of printers.
StartRefresh ==
    /\ rpc = "idle"
    /\ rnum < MaxRefresh
    /\ rnum' = rnum + 1
    /\ rpc' = "printers"
    /\ printers_data' = NotFetched
    /\ rlog' = <<Get("printers")>>
    /\ last_update' = "none"
    /\ refresh_requested' = FALSE
    /\ UNCHANGED <<data, svars, ovars>>

\* Mutant of PrintersResponse: the status is not looked at.
PrintersResponse_unchecked(status, body) ==
    /\ rpc = "printers"
    /\ printers_data' = Fetched(rnum, body)
    /\ rpc' = "spools"
    /\ rlog' = rlog \o <<Resp(status), Get("spools")>>
    /\ UNCHANGED <<data, rnum, last_update, refresh_requested, svars, ovars>>

\* The printers response arrives: a 200 stores the body and issues the GET of
\* spools; anything else raises UpdateFailed out of async_get_data.
PrintersResponse(status, body) ==
    /\ rpc = "printers"
    /\ IF status = "200"
       THEN /\ printers_data' = Fetched(rnum, body)
            /\ rpc' = "spools"
            /\ rlog' = rlog \o <<Resp(status), Get("spools")>>
            /\ UNCHANGED last_update
       ELSE /\ rpc' = "idle"
            /\ rlog' = Append(rlog, Resp(status))
            /\ last_update' = "UpdateFailed"
            /\ UNCHANGED printers_data
    /\ UNCHANGED <<data, rnum, refresh_requested, svars, ovars>>

\* The spools response arrives: a 200 returns the dict, which the coordinator
\* publishes; anything else raises UpdateFailed and coordinator.data stays.
SpoolsResponse(status, body) ==
    /\ rpc = "spools"
    /\ rpc' = "idle"
    /\ rlog' = Append(rlog, Resp(status))
    /\ IF status = "200"
       THEN /\ data' = async_get_data_result(printers_data, Fetched(rnum, body))
            /\ last_update' = "success"
       ELSE /\ last_update' = "UpdateFailed"
            /\ UNCHANGED data
    /\ UNCHANGED <<rnum, printers_data, refresh_requested, svars, ovars>>

\* ------------------------------------------ select.py: async_select_option

Delete(id) == [e |-> "DELETE", spoolId |-> id]
Post(id, tray) == [e |-> "POST", spoolId |-> id, trayId |-> tray]
RefreshRequest == [e |-> "refresh"]

\* The call up to its first await.  "None": the search, then the DELETE if
\* current_spool_id is truthy.  A label: the id is parsed, then the POST; a
\* label that does not parse is logged.  With no request to await the call
\* goes on to coordinator.async_request_refresh() and returns.
SelectOption(tray, option) ==
    /\ spc = "idle"
    /\ LET spools == data.spools.list
           started == [tray |-> tray, option |-> option, ended |-> "running"]
           finish == /\ spc' = "idle"
                     /\ call' = [started EXCEPT !.ended = "returned"]
                     /\ trace' = <<RefreshRequest>>
                     /\ refresh_requested' = TRUE
       IN  IF option = NoneOption
           THEN LET found == unassign_search(spools, tray)
                IN  IF found.kind = "raise"
                    THEN /\ spc' = "idle"
                         /\ call' = [started EXCEPT !.ended = found.exc]
                         /\ trace' = <<>>
                         /\ UNCHANGED refresh_requested
                    ELSE IF Truthy(found.val)
                    THEN /\ spc' = "delete"
                         /\ call' = started
                         /\ trace' = <<Delete(found.val.v)>>
                         /\ UNCHANGED refresh_requested
                    ELSE finish
           ELSE LET parsed == parse_spool_id(option)
                IN  IF parsed.ok
                    THEN /\ spc' = "post"
                         /\ call' = started
                         /\ trace' = <<Post(parsed.val, tray)>>
                         /\ UNCHANGED refresh_requested
                    ELSE finish
    /\ UNCHANGED <<data, rvars, ovars>>

\* Mutant of DeleteResponse: a response that is not 200 raises, as
\* raise_for_status would make it.
DeleteResponse_raise_for_status(status) ==
    /\ spc = "delete"
    /\ spc' = "idle"
    /\ IF status # "200"
       THEN /\ trace' = Append(trace, Resp(status))
            /\ call' = [call EXCEPT !.ended = "ClientError"]
            /\ UNCHANGED refresh_requested
       ELSE /\ trace' = trace \o <<Resp(status), RefreshRequest>>
            /\ call' = [call EXCEPT !.ended = "returned"]
            /\ refresh_requested' = TRUE
    /\ UNCHANGED <<data, rvars, ovars>>

\* The DELETE ends.  A response is logged when it is not 200, then the refresh
\* is requested; an exception leaves the call, no handler being around it.
DeleteResponse(status) ==
    /\ spc = "delete"
    /\ spc' = "idle"
    /\ IF status = "exception"
       THEN /\ trace' = Append(trace, Resp(status))
            /\ call' = [call EXCEPT !.ended = "ClientError"]
            /\ UNCHANGED refresh_requested
       ELSE /\ trace' = trace \o <<Resp(status), RefreshRequest>>
            /\ call' = [call EXCEPT !.ended = "returned"]
            /\ refresh_requested' = TRUE
    /\ UNCHANGED <<data, rvars, ovars>>

\* The POST ends.  A response is logged when it is not 200; an exception is
\* caught by the except block around the POST and logged; then the refresh is
\* requested.
PostResponse(status) ==
    /\ spc = "post"
    /\ spc' = "idle"
    /\ trace' = trace \o <<Resp(status), RefreshRequest>>
    /\ call' = [call EXCEPT !.ended = "returned"]
    /\ refresh_requested' = TRUE
    /\ UNCHANGED <<data, rvars, ovars>>

\* ------------------------------------------------------- property reads

\* The host reads a select entity's properties; unassign is what the search
\* of async_select_option("None") finds in the same data.
ReadSelect(tray) ==
    /\ obs_select' = [tray |-> tray,
                      options |-> options(data.spools.list),
                      current_option |-> current_option(data.spools.list, tray),
                      unassign |-> unassign_search(data.spools.list, tray)]
    /\ UNCHANGED <<data, rvars, refresh_requested, svars, obs_sensor>>

\* The host reads a sensor entity's properties.
ReadSensor(tray) ==
    /\ obs_sensor' = [tray |-> tray,
                      native_value |-> native_value(data.spools.list, tray),
                      attributes |-> extra_state_attributes(data.spools.list, tray)]
    /\ UNCHANGED <<data, rvars, refresh_requested, svars, obs_select>>

\* --------------------------------------------------------- specifications

Range(s) == {s[i] : i \in 1..Len(s)}

\* The protocol: refreshes and select calls, interleaved at their awaits.
Init == \E spools \in ProtoSpoolLists : InitWith(spools)
Refresh ==
    \/ StartRefresh
    \/ PrintersResponse("200", [t |-> "list", v |-> PrinterList])
    \/ \E status \in Failures : PrintersResponse(status, Absent)
    \/ \E body \in Bodies(ProtoSpoolLists) : SpoolsResponse("200", body)
    \/ \E status \in Failures : SpoolsResponse(status, Absent)
Select ==
    \/ \E tray \in Trays, option \in Range(options(data.spools.list)) \cup OtherOptions :
           SelectOption(tray, option)
    \/ \E status \in Statuses : DeleteResponse(status)
    \/ \E status \in Statuses : PostResponse(status)
Next == Refresh \/ Select
Spec == Init /\ [][Next]_vars

\* The lookups: the properties of both entities of a tray read from one
\* coordinator.data.
InitLookup ==
    \/ \E k \in 0..MaxSpools : \E f \in [1..k -> ActiveTrayValues] :
           InitWith(LookupList(k, f))
    \/ \E f \in [1..(MaxSpools + 1) -> TieValues] :
           InitWith(LookupList(MaxSpools + 1, f))
    \/ \E spools \in LabelSpoolLists : InitWith(spools)
NextLookup == \E tray \in Trays : ReadSelect(tray) \/ ReadSensor(tray)
SpecLookup == InitLookup /\ [][NextLookup]_vars

\* ------------------------------------------------- the claims: vocabulary

Spools == data.spools.list

\* The label as the specification words it: "#{id} {vendor} {material} {name}"
\* with the trailing whitespace trimmed, vendor and material "Unknown" and name
\* empty when absent.
LabelText(spool) ==
    RStrip(<<"#">> \o IntToStr(spool.id) \o <<SP>>
           \o (IF spool.filament.vendor = Absent THEN Unknown ELSE spool.filament.vendor.v)
           \o <<SP>>
           \o (IF spool.filament.material = Absent THEN Unknown ELSE spool.filament.material.v)
           \o <<SP>>
           \o (IF spool.filament.name = Absent THEN <<>> ELSE spool.filament.name.v),
           Whitespace)

\* The two decoding paths of an active_tray value a for tray t.
JsonYields(a, t) == a.t = "str" /\ json_loads(a.v).ok /\ EqStr(json_loads(a.v).val, t)
StripYields(a, t) == a.t = "str" /\ Strip(a.v, {Q}) = t
\* Either path yields t.
DecodesEither(a, t) == JsonYields(a, t) \/ StripYields(a, t)
\* JSON decoding yields t, or JSON decoding fails and stripping yields t.
DecodesFallback(a, t) ==
    \/ JsonYields(a, t)
    \/ (a.t = "str" /\ ~json_loads(a.v).ok /\ StripYields(a, t))
\* A value that is truthy and not a str: a number, a list, an object, true.
NotAString(a) == a.t # "absent" /\ a.t # "str" /\ Truthy(a)

\* The first position of spools that P holds of, 0 when there is none.
FirstWhere(spools, P(_)) ==
    IF \E i \in 1..Len(spools) : P(spools[i])
    THEN CHOOSE i \in 1..Len(spools) :
             P(spools[i]) /\ \A j \in 1..(i - 1) : ~P(spools[j])
    ELSE 0

SelectWasRead == obs_select.tray # <<>>
SensorWasRead == obs_sensor.tray # <<>>

\* ---------------------------------------------------------------- C1

\* C1 as claimed, of the reads that return: when some spool's active_tray
\* decodes to the tray by either path (JSON decoding yields it, or stripping
\* the quotes yields it), current_option is the label of such a spool; when
\* none does, current_option is "None".
C1_EitherPath ==
    (SelectWasRead /\ obs_select.current_option.kind = "return") =>
        LET t == obs_select.tray
            hits == {i \in 1..Len(Spools) : DecodesEither(Spools[i].active_tray, t)}
        IN  IF hits # {}
            THEN \E i \in hits : obs_select.current_option.val = LabelText(Spools[i])
            ELSE obs_select.current_option.val = NoneOption

\* C1 amended: current_option stops at the first spool whose active_tray is
\* not a string (and truthy) or decodes to the tray, where it decodes when JSON
\* decoding yields the tray, or JSON decoding fails and stripping the quotes
\* yields the tray.  At a decoding spool it returns that spool's label, at a
\* non-string it raises AttributeError, and with no such spool it returns "None".
C1_FallbackPath ==
    SelectWasRead =>
        LET t == obs_select.tray
            Stops(spool) == \/ NotAString(spool.active_tray)
                            \/ DecodesFallback(spool.active_tray, t)
            i == FirstWhere(Spools, Stops)
        IN  obs_select.current_option =
                IF i = 0 THEN Return(NoneOption)
                ELSE IF NotAString(Spools[i].active_tray) THEN Raise("AttributeError")
                ELSE Return(LabelText(Spools[i]))

\* C1's case: a quoted match behind a raw string that is a JSON number, read
\* for the tray the quoted value names.
C1_Witness ==
    /\ SelectWasRead /\ obs_select.tray = <<"a">>
    /\ Len(Spools) = 2
    /\ Spools[1].active_tray = PyStr(<<"1">>)
    /\ Spools[2].active_tray = PyStr(<<Q, "a", Q>>)
    /\ obs_select.current_option = Return(LabelText(Spools[2]))

\* ---------------------------------------------------------------- C6

\* C6 as claimed: no read of current_option, native_value or
\* extra_state_attributes raises, and neither does the unassign search,
\* whatever the active_tray values of the collection.
C6_NeverRaises ==
    /\ SelectWasRead => /\ obs_select.current_option.kind = "return"
                        /\ obs_select.unassign.kind = "return"
    /\ SensorWasRead => /\ obs_sensor.native_value.kind = "return"
                        /\ obs_sensor.attributes.kind = "return"

\* ---------------------------------------------------------------- C7

\* C7: every entry of options after "None" is the label text of the spool at
\* that position, and a label current_option returns is the label text of a
\* spool of the collection and the entry of options at that spool's position.
C7_LabelFormat ==
    SelectWasRead =>
        /\ Len(obs_select.options) = Len(Spools) + 1
        /\ \A i \in 1..Len(Spools) : obs_select.options[i + 1] = LabelText(Spools[i])
        /\ (obs_select.current_option.kind = "return"
            /\ obs_select.current_option.val # NoneOption) =>
               \E i \in 1..Len(Spools) :
                   /\ DecodesFallback(Spools[i].active_tray, obs_select.tray)
                   /\ obs_select.current_option.val = LabelText(Spools[i])
                   /\ obs_select.current_option.val = obs_select.options[i + 1]

\* C7's case: a spool without vendor, with an empty material and a name that
\* ends in a space, assigned to the tray that was read.
C7_Witness ==
    /\ SelectWasRead
    /\ Len(Spools) = 1
    /\ Spools[1].filament = Filament(Absent, PyStr(<<>>), PyStr(<<"R", SP>>))
    /\ Spools[1].id = 12
    /\ obs_select.current_option =
           Return(<<"#", "1", "2", SP, "U", "n", "k", "n", "o", "w", "n", SP, SP, "R">>)
    /\ obs_select.options[2] = obs_select.current_option.val

\* ---------------------------------------------------------------- C9

\* C9 as claimed: when several spools match the tray that was read, every
\* lookup reports the first of them: current_option its label, the unassign
\* search its id, native_value "Spool #" and its id, extra_state_attributes
\* its id.
C9_FirstMatchWins ==
    LET Several(t) ==
            Cardinality({i \in 1..Len(Spools) :
                            DecodesFallback(Spools[i].active_tray, t)}) >= 2
        First(t) ==
            LET Hit(spool) == DecodesFallback(spool.active_tray, t)
            IN  Spools[FirstWhere(Spools, Hit)]
    IN  /\ (SelectWasRead /\ Several(obs_select.tray)) =>
               /\ obs_select.current_option = Return(LabelText(First(obs_select.tray)))
               /\ obs_select.unassign = Return(PyInt(First(obs_select.tray).id))
        /\ (SensorWasRead /\ Several(obs_sensor.tray)) =>
               /\ obs_sensor.native_value =
                      Return(SpoolPrefix \o IntToStr(First(obs_sensor.tray).id))
               /\ obs_sensor.attributes.kind = "return"
               /\ obs_sensor.attributes.val.n > 0
               /\ obs_sensor.attributes.val.spool_id = First(obs_sensor.tray).id

\* ------------------------------------------------ the claims: the protocol

IsWrite(ev) == ev.e \in {"DELETE", "POST"}
IsGet(ev) == ev.e = "GET"
IsResp(ev) == ev.e = "response"
IsRefreshRequest(ev) == ev.e = "refresh"
Writes(tr) == SelectSeq(tr, IsWrite)

CallEnded == call.ended \notin {"none", "running"}
\* The step that starts a call of async_select_option.
CallStarts == spc = "idle" /\ <<call', trace'>> # <<call, trace>>
\* The step in which the awaited write ends with the given status.
WriteEndsWith(status) ==
    /\ spc \in {"delete", "post"}
    /\ Len(trace') > Len(trace)
    /\ trace'[Len(trace) + 1] = Resp(status)

\* ---------------------------------------------------------------- C2

\* C2: a call with the label of a spool issues one POST, first of all, whose
\* spoolId is the id of every spool that has this label and whose trayId is
\* the entity's tray, and issues no DELETE.
C2_LabelRoundTrip ==
    \A s \in ProtoSpools :
        (call.ended # "none" /\ call.option = LabelText(s)) =>
            /\ trace # <<>>
            /\ trace[1] = Post(s.id, call.tray)
            /\ Writes(trace) = <<trace[1]>>

\* C2's case: the label of spool 12, which has no filament fields, selected on
\* tray "1"; the POST got its response.
C2_Witness ==
    /\ call.option = <<"#", "1", "2", SP, "U", "n", "k", "n", "o", "w", "n", SP,
                       "U", "n", "k", "n", "o", "w", "n">>
    /\ trace = <<Post(12, <<"1">>), Resp("200"), RefreshRequest>>

\* ---------------------------------------------------------------- C3

\* C3 as claimed, of the calls whose search did not raise: a call that has
\* ended requested the refresh exactly once, as its last step, after the
\* response to its write request if it issued one.
C3_RefreshOnceAtEnd ==
    (CallEnded /\ call.ended # "AttributeError") =>
        /\ Len(SelectSeq(trace, IsRefreshRequest)) = 1
        /\ trace[Len(trace)] = RefreshRequest
        /\ Writes(trace) # <<>> => Len(SelectSeq(trace, IsResp)) = 1

\* ---------------------------------------------------------------- C4

Gets(log) == SelectSeq(log, IsGet)
Resps(log) == SelectSeq(log, IsResp)

\* How a refresh that has ended stands: both responses 200 and its data
\* published, or a failed response, UpdateFailed, and the data of an earlier
\* refresh; after a failed printers response the spools were not requested.
RefreshEnded ==
    LET r == Resps(rlog)
    IN  \/ /\ r = <<Resp("200"), Resp("200")>>
           /\ last_update = "success"
           /\ data.spools.from = rnum
        \/ /\ Len(r) = 1 /\ r[1].status \in Failures
           /\ Gets(rlog) = <<Get("printers")>>
           /\ last_update = "UpdateFailed"
           /\ data.spools.from < rnum
        \/ /\ Len(r) = 2 /\ r[1] = Resp("200") /\ r[2].status \in Failures
           /\ last_update = "UpdateFailed"
           /\ data.spools.from < rnum

C4_RefreshState ==
    /\ Gets(rlog) \in {<<>>, <<Get("printers")>>, <<Get("printers"), Get("spools")>>}
    /\ data.printers.from = data.spools.from
    /\ (rpc = "idle" /\ rnum > 0) => RefreshEnded
    /\ rpc # "idle" => data.spools.from < rnum

\* C4: a refresh requests the printers, then the spools, each at most once; it
\* publishes only after two 200 responses, and then printers and spools that
\* this refresh fetched; any other response ends it in UpdateFailed with the
\* data unchanged and, when the printers failed, without the spools request.
C4_RefreshAtomic ==
    /\ []C4_RefreshState
    /\ [][/\ data' # data =>
                /\ rpc = "spools"
                /\ Resps(rlog') = <<Resp("200"), Resp("200")>>
                /\ data'.printers.from = rnum /\ data'.spools.from = rnum
          /\ (last_update' = "UpdateFailed" /\ last_update # "UpdateFailed") =>
                data' = data]_vars

\* C4's case: refresh 1 published a collection that is not empty.
C4_Witness ==
    /\ rnum = 1 /\ rpc = "idle" /\ last_update = "success"
    /\ data.spools.from = 1 /\ data.spools.list # <<>>

\* ---------------------------------------------------------------- C5

\* C5: the step in which a DELETE or a POST gets a response that is not 200
\* ends the call without raising and without another write request, and
\* leaves coordinator.data, hence every current_option, as it was.
C5_Non200Swallowed ==
    [][WriteEndsWith("non200") =>
          /\ spc' = "idle"
          /\ call'.ended = "returned"
          /\ Len(Writes(trace')) = 1
          /\ data' = data
          /\ \A t \in Trays :
                 current_option(data'.spools.list, t) = current_option(Spools, t)]_vars

\* C5's case: the DELETE of spool 12 got a response that is not 200, and the
\* tray still shows the spool.
C5_Witness ==
    /\ call.ended = "returned"
    /\ trace = <<Delete(12), Resp("non200"), RefreshRequest>>
    /\ current_option(Spools, call.tray).kind = "return"
    /\ current_option(Spools, call.tray).val # NoneOption

\* ---------------------------------------------------------------- C8

\* C8 as claimed, of the calls whose search did not raise: a call with "None"
\* issues one DELETE with the id of the first spool assigned to the tray when
\* there is one, and no request when there is none.
C8_UnassignTargetsCurrent ==
    [][(CallStarts /\ call'.option = NoneOption /\ call'.ended # "AttributeError") =>
          LET Hit(spool) == DecodesFallback(spool.active_tray, call'.tray)
              i == FirstWhere(Spools, Hit)
          IN  IF i # 0 THEN Writes(trace') = <<Delete(Spools[i].id)>>
              ELSE Writes(trace') = <<>>]_vars

\* ---------------------------------------------------------------- C10

\* C10: in every state, for every tray, a value that current_option returns
\* is an entry of options of the same data, and the first option is "None".
C10_CurrentInOptions ==
    \A t \in Trays :
        /\ options(Spools) # <<>>
        /\ options(Spools)[1] = NoneOption
        /\ current_option(Spools, t).kind = "return" =>
               current_option(Spools, t).val \in Range(options(Spools))

\* C10's case: after a published refresh and a call that has ended,
\* current_option of the tray is the label of the second spool.
C10_Witness ==
    /\ rnum = 1 /\ data.spools.from = 1 /\ CallEnded
    /\ Len(Spools) = 2
    /\ current_option(Spools, <<"a">>) = Return(options(Spools)[3])

=============================================================================
